---- MODULE Spec2Model ----
(***************************************************************************)
(* GroqCLI-Chatbot: the conversation state machine of the interactive     *)
(* loop (growcli/main.py), the chat engine (growcli/chat_engine.py) and   *)
(* the conversation manager (growcli/conversation_manager.py).            *)
(*                                                                         *)
(* Conventions of the model                                                *)
(*   - a Python str is a sequence of string fragments, so that an         *)
(*     f-string or a concatenation is \o of its parts;                     *)
(*   - a Python list is a sequence, a dataclass instance a record;         *)
(*   - a JSON object is a function from key strings to JSON values, a     *)
(*     JSON value is [string |-> s], [number |-> n], [null |-> TRUE];      *)
(*   - a file path is <<directory, name>>;                                 *)
(*   - times are clock ticks, floats are integers in fixed units.          *)
(***************************************************************************)
EXTENDS Integers, Sequences, FiniteSets, TLC

\* Number of times the prompt is answered (get_input calls) in a run.
MaxInputs == 3
\* Largest configured CHATBOT_MAX_HISTORY explored (0..MaxHistory).
MaxHistory == 2
\* A ChatEngine used on its own: the largest max_history (0..MaxWindow), and the
\* number of exchanges its history grows to.
MaxWindow == 4
MaxExchanges == 3

VARIABLES
    settings,              \* the Settings load_settings built
    errors,                \* what settings.validate() returned
    max_history,           \* ChatEngine.max_history (settings, fixed at construction)
    history,               \* ChatEngine.history: Seq of Message
    current_conversation,  \* ConversationManager.current_conversation
    metadata,              \* ConversationManager.metadata
    session_id,            \* ConversationManager.session_id
    files,                 \* the file system: path -> file content
    now,                   \* the wall clock (ticks)
    inputs_left,           \* get_input calls still to come
    pc,                    \* where app() is: "loop", "cleanup", "returned", "crashed",
                           \* "terminated"; in load_settings: "configure", "configured",
                           \* "exit"; "engine" for a ChatEngine used on its own
    sent,                  \* the messages= argument of the most recent remote call
    last                   \* what the most recent loop iteration did

vars == <<settings, errors, max_history, history, current_conversation, metadata, session_id,
          files, now, inputs_left, pc, sent, last>>

-----------------------------------------------------------------------------
(* Python helpers *)

Min(a, b) == IF a < b THEN a ELSE b
Max(a, b) == IF a > b THEN a ELSE b

\* Python's s[start:] for a list s and an integer start (negative counts from the end).
PySliceFrom(s, start) ==
    LET n == Len(s)
        lo == IF start < 0 THEN Max(n + start, 0) ELSE Min(start, n)
    IN  SubSeq(s, lo + 1, n)

\* list.pop(): the list without its last element.
PyPop(s) == SubSeq(s, 1, Len(s) - 1)

\* Python's None, where the field is Optional[str].
None == <<"None">>

\* datetime.now().isoformat() at clock tick t.
IsoFormat(t) == <<"T", ToString(t)>>

\* datetime.now().strftime("%Y%m%d_%H%M%S") at clock tick t.
StrfTime(t) == <<"S", ToString(t)>>

\* str.lower() on the tokens the model types in.
LowerWord(w) ==
    CASE w = "/QUIT" -> "/quit"
      [] w = "/Exit" -> "/exit"
      [] w = "/Q" -> "/q"
      [] w = "/CLEAR" -> "/clear"
      [] w = "JSON" -> "json"
      [] w = "MD" -> "md"
      [] w = "Txt" -> "txt"
      [] w = "Code" -> "code"
      [] OTHER -> w

RECURSIVE Lower(_)
Lower(s) == IF s = <<>> THEN <<>> ELSE <<LowerWord(Head(s))>> \o Lower(Tail(s))

-----------------------------------------------------------------------------
(* growcli/config.py *)

\* @dataclass Settings (temperature in tenths)
Settings(key, model, name, mh, temperature, max_tokens) ==
    [groq_api_key |-> key, groq_model |-> model, chatbot_name |-> name,
     max_history |-> mh, temperature |-> temperature, max_tokens |-> max_tokens]

\* str.startswith(prefix)
StartsWith(str, prefix) == Len(str) > 0 /\ str[1] = prefix

\* The messages of Settings.validate.
KeyRequiredError == <<"GROQ_API_KEY is required. Get one at https://console.groq.com/keys">>
KeyPrefixError == <<"GROQ_API_KEY should start with 'gsk_'. Check your key.">>
TemperatureError(t) == <<"CHATBOT_TEMPERATURE must be 0-2, got ", ToString(t)>>
MaxTokensError(n) == <<"CHATBOT_MAX_TOKENS must be positive, got ", ToString(n)>>

\* A validate that tests the prefix of an empty key as well.
ValidatePrefixOfEmptyKey(s) ==
    (IF s.groq_api_key = <<>> THEN <<KeyRequiredError>> ELSE <<>>)
    \o (IF ~StartsWith(s.groq_api_key, "gsk_") THEN <<KeyPrefixError>> ELSE <<>>)
    \o (IF s.temperature < 0 \/ s.temperature > 20
        THEN <<TemperatureError(s.temperature)>> ELSE <<>>)
    \o (IF s.max_tokens < 1 THEN <<MaxTokensError(s.max_tokens)>> ELSE <<>>)

\* Settings.validate(): the list of error messages.
Validate(s) ==
    (IF s.groq_api_key = <<>> THEN <<KeyRequiredError>> ELSE <<>>)
    \o (IF ~StartsWith(s.groq_api_key, "gsk_") /\ s.groq_api_key # <<>>
        THEN <<KeyPrefixError>> ELSE <<>>)
    \o (IF s.temperature < 0 \/ s.temperature > 20
        THEN <<TemperatureError(s.temperature)>> ELSE <<>>)
    \o (IF s.max_tokens < 1 THEN <<MaxTokensError(s.max_tokens)>> ELSE <<>>)

-----------------------------------------------------------------------------
(* growcli/chat_engine.py *)

\* InteractionMetrics(...)
InteractionMetrics(pt, ct, tt, lat, model) ==
    [prompt_tokens |-> pt, completion_tokens |-> ct, total_tokens |-> tt,
     latency_seconds |-> lat, model |-> model]

\* InteractionMetrics(): the dataclass defaults.
ZeroMetrics == InteractionMetrics(0, 0, 0, 0, <<>>)

Message(role, content) == [role |-> role, content |-> content]

\* get_system_prompt(settings.chatbot_name)
SystemPrompt == <<"You are ", "Atlas", ", a helpful, friendly, and knowledgeable AI assistant">>

\* ChatEngine.system_message
system_message == Message("system", SystemPrompt)

\* settings.groq_model, settings.temperature (tenths)
GroqModel == <<"llama-3.3-70b-versatile">>
Temperature == 7

\* A _build_messages that keeps the oldest max_history messages (history[:max_history]).
BuildMessagesOldest(h, mh) ==
    LET oldest == SubSeq(h, 1, Min(Len(h), mh))
    IN  <<[role |-> system_message.role, content |-> system_message.content]>>
        \o [i \in 1..Len(oldest) |-> [role |-> oldest[i].role, content |-> oldest[i].content]]

\* ChatEngine._build_messages with self.history = h and self.max_history = mh.
BuildMessages(h, mh) ==
    LET recent_history == PySliceFrom(h, -mh)
    IN  <<[role |-> system_message.role, content |-> system_message.content]>>
        \o [i \in 1..Len(recent_history) |->
               [role |-> recent_history[i].role, content |-> recent_history[i].content]]

\* What self.client.chat.completions.create(...) can do: return a response
\* (with or without usage) or raise.
Usage(pt, ct) == [present |-> TRUE, prompt_tokens |-> pt, completion_tokens |-> ct,
                  total_tokens |-> pt + ct]
NoUsage == [present |-> FALSE, prompt_tokens |-> 0, completion_tokens |-> 0, total_tokens |-> 0]

Response(text, usage, latency) ==
    [raised |-> "", content |-> text, usage |-> usage, latency |-> latency, message |-> <<>>]
Raised(exc, msg) ==
    [raised |-> exc, content |-> <<>>, usage |-> NoUsage, latency |-> 0, message |-> msg]

Responses ==
    { Response(<<"Hello! How can I help?">>, Usage(2, 1), 1),
      Response(<<"Hello! How can I help?">>, NoUsage, 1) }

Failures ==
    { Raised("APIConnectionError", <<"Connection error.">>),
      Raised("RateLimitError", <<"Rate limit exceeded">>),
      Raised("APIError", <<"Bad request">>),
      Raised("Exception", <<"boom">>) }

\* The text send_message returns from each except clause.
ErrorText(r) ==
    CASE r.raised = "APIConnectionError" ->
             <<"Cannot connect to GroqCloud. Check your internet connection.">>
      [] r.raised = "RateLimitError" ->
             <<"Rate limit reached. Please wait a moment and try again.">>
      [] r.raised = "APIError" -> <<"API Error: ">> \o r.message
      [] OTHER -> <<"Unexpected error: ">> \o r.message

\* A send_message whose except clauses forget self.history.pop().
HistoryAfterFailureNoPop(pending) == pending

\* A send_message whose except clauses pop twice.
HistoryAfterFailurePopTwice(pending) == PyPop(PyPop(pending))

\* The history send_message leaves when the remote call raised: self.history.pop().
HistoryAfterFailure(pending) == PyPop(pending)

\* A send_message that keeps only the window it sent (self.history = recent_history).
SendMessageTrimming(h, mh, user_input, r) ==
    LET pending == PySliceFrom(Append(h, Message("user", user_input)), -mh)
    IN  IF r.raised # ""
        THEN [history |-> PyPop(pending), text |-> ErrorText(r), metrics |-> ZeroMetrics,
              messages |-> BuildMessages(pending, mh)]
        ELSE [history |-> Append(pending, Message("assistant", r.content)),
              text |-> r.content,
              metrics |-> InteractionMetrics(
                  IF r.usage.present THEN r.usage.prompt_tokens ELSE 0,
                  IF r.usage.present THEN r.usage.completion_tokens ELSE 0,
                  IF r.usage.present THEN r.usage.total_tokens ELSE 0,
                  r.latency, GroqModel),
              messages |-> BuildMessages(pending, mh)]

\* A send_message that reports the usage's total where the prompt tokens belong.
SendMessageTotalAsPrompt(h, mh, user_input, r) ==
    LET pending == Append(h, Message("user", user_input))
        messages == BuildMessages(pending, mh)
    IN  IF r.raised # ""
        THEN [history |-> PyPop(pending), text |-> ErrorText(r), metrics |-> ZeroMetrics,
              messages |-> messages]
        ELSE [history |-> Append(pending, Message("assistant", r.content)),
              text |-> r.content,
              metrics |-> InteractionMetrics(
                  IF r.usage.present THEN r.usage.total_tokens ELSE 0,
                  IF r.usage.present THEN r.usage.completion_tokens ELSE 0,
                  IF r.usage.present THEN r.usage.total_tokens ELSE 0,
                  r.latency, GroqModel),
              messages |-> messages]

\* ChatEngine.send_message(user_input) on history h, the remote call answering r:
\* the history it leaves, the (text, metrics) it returns, and the payload it sent.
SendMessage(h, mh, user_input, r) ==
    LET pending == Append(h, Message("user", user_input))
        messages == BuildMessages(pending, mh)
    IN  IF r.raised # ""
        THEN [history |-> HistoryAfterFailure(pending),
              text |-> ErrorText(r),
              metrics |-> ZeroMetrics,
              messages |-> messages]
        ELSE [history |-> Append(pending, Message("assistant", r.content)),
              text |-> r.content,
              metrics |-> InteractionMetrics(
                  IF r.usage.present THEN r.usage.prompt_tokens ELSE 0,
                  IF r.usage.present THEN r.usage.completion_tokens ELSE 0,
                  IF r.usage.present THEN r.usage.total_tokens ELSE 0,
                  r.latency, GroqModel),
              messages |-> messages]

\* A clear_history that forgets the latest exchange only.
ClearHistoryLatestOnly(h) == SubSeq(h, 1, Len(h) - 2)

\* ChatEngine.clear_history
ClearHistory(h) == <<>>

-----------------------------------------------------------------------------
(* growcli/conversation_manager.py *)

\* @dataclass ConversationMessage
ConversationMessage(role, content, timestamp, tokens, latency) ==
    [role |-> role, content |-> content, timestamp |-> timestamp,
     tokens |-> tokens, latency |-> latency]

\* @dataclass ConversationMetadata
ConversationMetadata(sid, model, temperature, start_time, end_time, tm, tt, tc) ==
    [session_id |-> sid, model |-> model, temperature |-> temperature,
     start_time |-> start_time, end_time |-> end_time,
     total_messages |-> tm, total_tokens |-> tt, total_cost |-> tc]

MessageFields == {"role", "content", "timestamp", "tokens", "latency"}
MessageRequired == {"role", "content", "timestamp"}
MetadataFields == {"session_id", "model", "temperature", "start_time", "end_time",
                   "total_messages", "total_tokens", "total_cost"}
MetadataRequired == {"session_id", "model", "temperature", "start_time"}

\* The fields whose Python values are numbers, and those that may be None.
NumberFields == {"tokens", "latency", "temperature", "total_messages", "total_tokens",
                 "total_cost"}
OptionalFields == {"end_time"}

\* The default of a dataclass field that has one.
FieldDefault(k) == IF k = "end_time" THEN None ELSE 0

\* ConversationManager.save_dir
save_dir == <<"conversations">>

\* ConversationManager.start_session(model, temperature) at clock tick t.
StartSession(model, temperature, t) ==
    [session_id |-> StrfTime(t),
     metadata |-> ConversationMetadata(StrfTime(t), model, temperature, IsoFormat(t),
                                       None, 0, 0, 0),
     current_conversation |-> <<>>]

\* An add_message that counts only the messages that carry a token count.
CountMessageWithTokens(md, tokens) ==
    [md EXCEPT !.total_messages = IF tokens > 0 THEN @ + 1 ELSE @,
               !.total_tokens = @ + tokens]

\* The metadata add_message leaves: total_messages += 1, total_tokens += tokens.
CountMessage(md, tokens) ==
    [md EXCEPT !.total_messages = @ + 1, !.total_tokens = @ + tokens]

\* ConversationManager.add_message(role, content, tokens, latency) at clock tick t.
AddMessage(cc, md, role, content, tokens, latency, t) ==
    [current_conversation |->
         Append(cc, ConversationMessage(role, content, IsoFormat(t), tokens, latency)),
     metadata |-> CountMessage(md, tokens)]

\* json.dump of one field value: str -> string, int/float -> number, None -> null.
JsonEncode(k, v) ==
    IF k \in NumberFields THEN [number |-> v]
    ELSE IF k \in OptionalFields /\ v = None THEN [null |-> TRUE]
    ELSE [string |-> v]

\* json.load of one value.
JsonDecode(j) ==
    IF "number" \in DOMAIN j THEN j.number
    ELSE IF "null" \in DOMAIN j THEN None
    ELSE j.string

\* asdict(obj) written by json.dump: the object's fields as a JSON object.
JsonObject(obj, fields) == [k \in fields |-> JsonEncode(k, obj[k])]

\* A save_json that leaves the latency out of each message.
JsonMessagesWithoutLatency(cc) ==
    [i \in 1..Len(cc) |-> JsonObject(cc[i], MessageFields \ {"latency"})]

\* The messages list save_json writes.
JsonMessages(cc) == [i \in 1..Len(cc) |-> JsonObject(cc[i], MessageFields)]

\* The data dict save_json builds and dumps.
JsonData(cc, md) ==
    [metadata |-> JsonObject(md, MetadataFields), messages |-> JsonMessages(cc)]

\* Cls(**d) can be called: every required field given, no unexpected keyword.
Constructible(d, required, fields) == required \subseteq DOMAIN d /\ DOMAIN d \subseteq fields

\* Cls(**d) for a JSON object d read by json.load.
Construct(d, fields) ==
    [k \in fields |-> IF k \in DOMAIN d THEN JsonDecode(d[k]) ELSE FieldDefault(k)]

\* Files
Absent == [exists |-> FALSE]
JsonFile(data) == [exists |-> TRUE, format |-> "json", data |-> data]
\* a file json.load cannot parse
TextFile(format, body) == [exists |-> TRUE, format |-> format, body |-> body]

\* save_dir / filename
InSaveDir(filename) == <<save_dir, filename>>

\* f"conversation_{self.session_id}.<ext>"
DefaultName(sid, ext) == <<"conversation_">> \o sid \o <<".", ext>>

\* A save_json that names the file after the session id in the metadata.
SaveJsonNamedByMetadata(cc, md, sid) ==
    [path |-> InSaveDir(DefaultName(md.session_id, "json")),
     content |-> JsonFile(JsonData(cc, md))]

\* ConversationManager.save_json(): the path and the content written.
SaveJson(cc, md, sid) ==
    [path |-> InSaveDir(DefaultName(sid, "json")), content |-> JsonFile(JsonData(cc, md))]

\* The "Tokens: .. | Latency: .." annotation, written only when msg.tokens > 0.
Annotation(msg) == IF msg.tokens > 0 THEN <<msg.tokens, msg.latency>> ELSE <<>>

\* The metadata block of the Markdown and text exports.
MetadataBlock(md) ==
    [model |-> md.model, temperature |-> md.temperature, start_time |-> md.start_time,
     total_messages |-> md.total_messages, total_tokens |-> md.total_tokens]

\* ConversationManager.save_markdown(): the path and the content written.
SaveMarkdown(cc, md, sid) ==
    [path |-> InSaveDir(DefaultName(sid, "md")),
     content |-> TextFile("md",
        [title |-> <<"# Conversation - ">> \o sid,
         metadata |-> MetadataBlock(md),
         blocks |-> [i \in 1..Len(cc) |->
            [heading |-> IF cc[i].role = "user" THEN "### You" ELSE "### Assistant",
             content |-> cc[i].content,
             annotation |-> Annotation(cc[i])]]])]

\* ConversationManager.save_text(): the path and the content written.
SaveText(cc, md, sid) ==
    [path |-> InSaveDir(DefaultName(sid, "txt")),
     content |-> TextFile("txt",
        [title |-> <<"Conversation - ">> \o sid,
         metadata |-> MetadataBlock(md),
         blocks |-> [i \in 1..Len(cc) |->
            [heading |-> IF cc[i].role = "user" THEN "You:" ELSE "Assistant:",
             content |-> cc[i].content,
             annotation |-> Annotation(cc[i])]]])]

\* The metadata load_conversation holds after its "Load metadata" step, the
\* document being data: replaced when the document has a metadata section.
LoadedMetadata(data, md) ==
    IF "metadata" \in DOMAIN data THEN Construct(data.metadata, MetadataFields) ELSE md

\* A load_conversation that empties current_conversation before it opens the file.
LoadConversationClearingFirst(fs, filepath, cc, md) ==
    LET failed(m) == [ok |-> FALSE, current_conversation |-> <<>>, metadata |-> m]
    IN  IF filepath \notin DOMAIN fs \/ ~fs[filepath].exists
        THEN failed(md)
        ELSE IF fs[filepath].format # "json"
        THEN failed(md)
        ELSE
          LET data == fs[filepath].data IN
          IF "metadata" \in DOMAIN data
             /\ ~Constructible(data.metadata, MetadataRequired, MetadataFields)
          THEN failed(md)
          ELSE
            LET md1 == LoadedMetadata(data, md) IN
            IF "messages" \notin DOMAIN data
            THEN failed(md1)
            ELSE IF \E i \in 1..Len(data.messages) :
                       ~Constructible(data.messages[i], MessageRequired, MessageFields)
            THEN failed(md1)
            ELSE [ok |-> TRUE,
                  current_conversation |->
                      [i \in 1..Len(data.messages) |->
                          Construct(data.messages[i], MessageFields)],
                  metadata |-> md1]

\* ConversationManager.load_conversation(filepath) with the file system fs:
\* the value returned and the current_conversation and metadata it leaves.
LoadConversation(fs, filepath, cc, md) ==
    LET unchanged == [ok |-> FALSE, current_conversation |-> cc, metadata |-> md]
    IN  IF filepath \notin DOMAIN fs \/ ~fs[filepath].exists
        THEN unchanged                          \* open() raises
        ELSE IF fs[filepath].format # "json"
        THEN unchanged                          \* json.load raises
        ELSE
          LET data == fs[filepath].data IN
          IF "metadata" \in DOMAIN data
             /\ ~Constructible(data.metadata, MetadataRequired, MetadataFields)
          THEN unchanged                        \* ConversationMetadata(**..) raises
          ELSE
            LET md1 == LoadedMetadata(data, md) IN
            IF "messages" \notin DOMAIN data
            THEN [ok |-> FALSE, current_conversation |-> cc, metadata |-> md1]
            ELSE IF \E i \in 1..Len(data.messages) :
                       ~Constructible(data.messages[i], MessageRequired, MessageFields)
            THEN [ok |-> FALSE, current_conversation |-> cc, metadata |-> md1]
            ELSE [ok |-> TRUE,
                  current_conversation |->
                      [i \in 1..Len(data.messages) |->
                          Construct(data.messages[i], MessageFields)],
                  metadata |-> md1]

\* ConversationManager.get_conversation_summary
RECURSIVE SumTokens(_)
SumTokens(cc) == IF cc = <<>> THEN 0 ELSE Head(cc).tokens + SumTokens(Tail(cc))

CountRole(cc, role) == Cardinality({i \in 1..Len(cc) : cc[i].role = role})

\* A summary whose token sum leaves out the user messages.
GetConversationSummaryAssistantTokens(cc) ==
    IF cc = <<>> THEN [empty |-> TRUE, messages |-> 0, you |-> 0, assistant |-> 0, tokens |-> 0]
    ELSE [empty |-> FALSE, messages |-> Len(cc), you |-> CountRole(cc, "user"),
          assistant |-> CountRole(cc, "assistant"),
          tokens |-> SumTokens(SelectSeq(cc, LAMBDA m : m.role = "assistant"))]

GetConversationSummary(cc) ==
    IF cc = <<>> THEN [empty |-> TRUE, messages |-> 0, you |-> 0, assistant |-> 0, tokens |-> 0]
    ELSE [empty |-> FALSE, messages |-> Len(cc), you |-> CountRole(cc, "user"),
          assistant |-> CountRole(cc, "assistant"), tokens |-> SumTokens(cc)]

-----------------------------------------------------------------------------
(* growcli/templates.py *)

TemplateNames == {"code", "debug", "review", "explain", "summarize"}

\* Template.prompt of each entry of TemplateManager.templates (first line).
TemplatePrompt(name) ==
    CASE name = "code" -> <<"You are an expert programmer. Provide clean, working code with clear structure:">>
      [] name = "debug" -> <<"You are a debugging expert. Structure your response:">>
      [] name = "review" -> <<"You are a code reviewer. Structure your review:">>
      [] name = "explain" -> <<"You are a patient teacher. Structure your explanation:">>
      [] OTHER -> <<"You are a summarization expert. Structure your summary:">>

\* TemplateManager.get_template(name): self.templates.get(name.lower()).
GetTemplate(name) ==
    LET key == Lower(name)
    IN  IF Len(key) = 1 /\ key[1] \in TemplateNames
        THEN [found |-> TRUE, name |-> key[1], prompt |-> TemplatePrompt(key[1])]
        ELSE [found |-> FALSE, name |-> "", prompt |-> <<>>]

-----------------------------------------------------------------------------
(* growcli/main.py: the lines typed at the prompt *)

\* A line that starts with "/": its first word and the rest (split(maxsplit=1)).
CmdInput(cmd, args) == [cmd |-> cmd, args |-> args, text |-> <<>>]
\* Any other line.
TextInput(text) == [cmd |-> "", args |-> <<>>, text |-> text]

\* user_input.startswith("/")
StartsWithSlash(inp) == inp.cmd # ""

\* not user_input or not user_input.strip()
IsBlank(inp) == inp.cmd = "" /\ inp.text \in {<<>>, <<" ">>}

\* user_input.startswith("/t ") or user_input.startswith("/template ")
StartsWithTemplate(inp) == inp.cmd \in {"/t", "/template"} /\ inp.args # <<>>

\* The whole line as typed.
LineText(inp) == IF inp.cmd = "" THEN inp.text ELSE <<inp.cmd, " ">> \o inp.args

QUIT_COMMANDS == {"/quit", "/exit", "/q"}

\* "/" in args or "\\" in args
HasSeparator(args) == \E i \in 1..Len(args) : args[i] \in {"/", "\\"}

\* The file a path string names: <<directory, name>>, split at its last separator.
PathOf(p) ==
    LET seps == {i \in 1..Len(p) : p[i] \in {"/", "\\"}}
        k == CHOOSE i \in seps : \A j \in seps : j <= i
    IN  IF seps = {} THEN <<<<>>, p>> ELSE <<SubSeq(p, 1, k - 1), SubSeq(p, k + 1, Len(p))>>

\* filepath = args if "/" in args or "\\" in args else f"conversations/{args}"
LoadPath(args) ==
    IF HasSeparator(args) THEN PathOf(args) ELSE PathOf(<<"conversations", "/">> \o args)

\* A /load that appends every loaded message, whatever its role.
RehydratedUnfiltered(h, cc) == h \o [i \in 1..Len(cc) |-> Message(cc[i].role, cc[i].content)]

\* The messages /load appends to engine.history after a successful load.
Rehydrated(h, cc) ==
    LET kept == SelectSeq(cc, LAMBDA m : m.role \in {"user", "assistant"})
    IN  h \o [i \in 1..Len(kept) |-> Message(kept[i].role, kept[i].content)]

\* The user message of a chat turn: the line itself, or (for a line that starts
\* with "/t " or "/template " and names a template) the template's prompt, a
\* blank line and the text read by the second get_input.
UserMessage(inp, raw) ==
    IF StartsWithTemplate(inp) /\ GetTemplate(inp.args).found
    THEN GetTemplate(inp.args).prompt \o <<"\n\n">> \o raw
    ELSE LineText(inp)

-----------------------------------------------------------------------------
(* The environment: what is typed, and what the conversations directory holds *)

Texts == {<<"sort a list">>}

\* A line that ends with a backslash.
ContinuedTexts == {<<"sort a list", "\\">>}

\* The text ends with a backslash.
EndsWithBackslash(text) == Len(text) > 0 /\ text[Len(text)] = "\\"

\* The session app() starts: ConversationManager() then start_session(...), at tick 0.
Session0 == StartSession(GroqModel, Temperature, 0)

\* A conversation an earlier run of the program saved.
OtherMetadata ==
    ConversationMetadata(<<"S", "old">>, <<"llama-3.1-8b-instant">>, 5, <<"T", "old">>,
                         None, 2, 9, 0)
OtherConversation ==
    << ConversationMessage("user", <<"what is TLA+">>, <<"T", "old1">>, 4, 0),
       ConversationMessage("assistant", <<"a specification language">>, <<"T", "old2">>, 5, 2) >>

\* A message object that gives only the required fields.
BareMessage ==
    [role |-> [string |-> "user"], content |-> [string |-> <<"bare">>],
     timestamp |-> [string |-> <<"T", "bare">>]]

\* A message object a hand-edited document gives the role system.
BareSystemMessage ==
    [role |-> [string |-> "system"], content |-> [string |-> <<"answer in French">>],
     timestamp |-> [string |-> <<"T", "bare0">>]]

OtherName == <<"other", ".", "json">>
NoMetadataName == <<"nometa", ".", "json">>
NoMessagesName == <<"nomsgs", ".", "json">>
EmptyMetadataName == <<"emptymeta", ".", "json">>
BadMessageName == <<"badmsg", ".", "json">>
NotJsonName == <<"notes", ".", "json">>
MissingName == <<"nonexistent", ".", "json">>

\* The conversations directory when the program starts.
InitialFiles ==
    InSaveDir(OtherName) :> JsonFile(JsonData(OtherConversation, OtherMetadata))
    @@ InSaveDir(NoMetadataName) :> JsonFile([messages |-> <<BareSystemMessage, BareMessage>>])
    @@ InSaveDir(NoMessagesName) :> JsonFile([metadata |-> JsonObject(OtherMetadata, MetadataFields)])
    @@ InSaveDir(EmptyMetadataName) :>
           JsonFile([metadata |-> <<>>, messages |-> JsonMessages(OtherConversation)])
    @@ InSaveDir(BadMessageName) :>
           JsonFile([metadata |-> JsonObject(OtherMetadata, MetadataFields),
                     messages |-> <<BareMessage, [role |-> [string |-> "user"]]>>])
    @@ InSaveDir(NotJsonName) :> TextFile("txt", <<"not json">>)
    @@ InSaveDir(MissingName) :> Absent
    @@ InSaveDir(DefaultName(Session0.session_id, "json")) :> Absent
    @@ InSaveDir(DefaultName(Session0.session_id, "md")) :> Absent
    @@ InSaveDir(DefaultName(Session0.session_id, "txt")) :> Absent

\* The arguments typed after /load.
LoadArgs ==
    { OtherName, NoMetadataName, NoMessagesName, EmptyMetadataName, BadMessageName,
      NotJsonName, MissingName, DefaultName(Session0.session_id, "json"),
      <<"conversations", "/">> \o OtherName }

\* The arguments typed after /save.
SaveArgs == { <<>>, <<"json">>, <<"JSON">>, <<"md">>, <<"markdown">>, <<"txt">>, <<"text">>,
              <<"pdf">> }

\* The arguments typed after /template and /t.
TemplateArgs == { <<>>, <<"code">>, <<"Code">>, <<"poem">> }

\* What the last loop iteration did: the operation, the argument it was given
\* (the text of a chat turn, the arguments of /save, /load and /template),
\* whether it succeeded, and what send_message returned.
Did(op, arg, ok, text, metrics, raised) ==
    [op |-> op, arg |-> arg, ok |-> ok, text |-> text, metrics |-> metrics,
     raised |-> raised]
Nothing == Did("start", <<>>, TRUE, <<>>, ZeroMetrics, "")
DidCommand(op, inp, ok) ==
    Did(op,
        IF op = "load" THEN inp.args
        ELSE IF op \in {"save", "save_format", "template"} THEN Lower(inp.args)
        ELSE <<>>,
        ok, <<>>, ZeroMetrics, "")

\* The settings app() runs with: load_settings has validated them.
AppSettings(mh) == Settings(<<"gsk_", "test_key_12345">>, GroqModel, "Atlas", mh, Temperature, 1024)

Init ==
    /\ max_history \in 0..MaxHistory
    /\ settings = AppSettings(max_history)
    /\ errors = Validate(settings)
    /\ history = <<>>
    /\ current_conversation = Session0.current_conversation
    /\ metadata = Session0.metadata
    /\ session_id = Session0.session_id
    /\ files = InitialFiles
    /\ now = 0
    /\ inputs_left = MaxInputs
    /\ pc = "loop"
    /\ sent = <<>>
    /\ last = Nothing

-----------------------------------------------------------------------------
(* growcli/main.py: app() and handle_command() *)

\* input_handler.get_input is called once more and returns.
GetInput ==
    /\ pc = "loop"
    /\ inputs_left > 0
    /\ inputs_left' = inputs_left - 1

\* open(filepath, 'w') and the writes after it succeed: the file is created or
\* replaced.
WriteFile(fs, w) ==
    [p \in DOMAIN fs \cup {w.path} |-> IF p = w.path THEN w.content ELSE fs[p]]

\* An empty or blank line: continue.
BlankLine ==
    \E inp \in {TextInput(<<>>), TextInput(<<" ">>)} :
        /\ GetInput
        /\ IsBlank(inp)
        /\ last' = DidCommand("blank", inp, TRUE)
        /\ UNCHANGED <<settings, errors, max_history, history, current_conversation, metadata, session_id,
                       files, now, pc, sent>>

\* A chat turn of the main loop: send_message, then both add_message calls.
ChatTurn(inp, raw, r) ==
    LET user_input == UserMessage(inp, raw)
        res == SendMessage(history, max_history, user_input, r)
        a1 == AddMessage(current_conversation, metadata, "user", user_input,
                         res.metrics.prompt_tokens, 0, now + 1)
        a2 == AddMessage(a1.current_conversation, a1.metadata, "assistant", res.text,
                         res.metrics.completion_tokens, res.metrics.latency_seconds, now + 2)
    IN  /\ GetInput
        /\ ~IsBlank(inp)
        /\ ~StartsWithSlash(inp)
        /\ history' = res.history
        /\ sent' = res.messages
        /\ current_conversation' = a2.current_conversation
        /\ metadata' = a2.metadata
        /\ now' = now + 2
        /\ last' = Did("chat", user_input, r.raised = "", res.text, res.metrics, r.raised)
        /\ UNCHANGED <<settings, errors, max_history, session_id, files, pc>>

\* The text the second get_input of a template turn returns (an empty one makes
\* the loop continue without a turn).
RawTexts(inp) == IF StartsWithTemplate(inp) THEN Texts ELSE {<<>>}

ChatTurnAnswered ==
    \E inp \in {TextInput(t) : t \in Texts} : \E raw \in RawTexts(inp) : \E r \in Responses :
        ChatTurn(inp, raw, r)

ChatTurnFailed ==
    \E inp \in {TextInput(t) : t \in Texts} : \E raw \in RawTexts(inp) : \E r \in Failures :
        ChatTurn(inp, raw, r)

\* Ctrl+C while send_message waits for the remote call: KeyboardInterrupt is no
\* Exception, so no except clause of send_message runs (the pending user message
\* stays in the history) and app() catches it around the loop.
ChatTurnInterrupted ==
    \E inp \in {TextInput(t) : t \in Texts} : \E raw \in RawTexts(inp) :
        LET user_input == UserMessage(inp, raw)
            pending == Append(history, Message("user", user_input))
        IN  /\ GetInput
            /\ ~IsBlank(inp)
            /\ ~StartsWithSlash(inp)
            /\ history' = pending
            /\ sent' = BuildMessages(pending, max_history)
            /\ pc' = "cleanup"
            /\ last' = Did("chat", user_input, FALSE, <<>>, ZeroMetrics, "KeyboardInterrupt")
            /\ UNCHANGED <<settings, errors, max_history, current_conversation, metadata, session_id,
                           files, now>>

\* handle_command: the line is a command whose lower-cased first word is in cmds.
Command(inp, cmds) ==
    /\ GetInput
    /\ ~IsBlank(inp)
    /\ StartsWithSlash(inp)
    /\ LowerWord(inp.cmd) \in cmds

\* /quit, /exit, /q: handle_command returns False and the loop breaks.
CmdQuit ==
    \E inp \in {CmdInput(c, <<>>) : c \in {"/quit", "/exit", "/q", "/QUIT", "/Exit", "/Q"}} :
        /\ Command(inp, QUIT_COMMANDS)
        /\ pc' = "cleanup"
        /\ last' = DidCommand("quit", inp, TRUE)
        /\ UNCHANGED <<settings, errors, max_history, history, current_conversation, metadata, session_id,
                       files, now, sent>>

\* Ctrl+C or end-of-input at the prompt: get_input returns '/quit'.
PromptInterrupted ==
    /\ GetInput
    /\ pc' = "cleanup"
    /\ last' = DidCommand("quit", CmdInput("/quit", <<>>), TRUE)
    /\ UNCHANGED <<settings, errors, max_history, history, current_conversation, metadata, session_id,
                   files, now, sent>>

\* A /clear that also starts the session anew.
CmdClearNewSession ==
    \E inp \in {CmdInput(c, <<>>) : c \in {"/clear", "/c", "/CLEAR"}} :
        /\ Command(inp, {"/clear", "/c"})
        /\ history' = ClearHistory(history)
        /\ current_conversation' = <<>>
        /\ metadata' = StartSession(GroqModel, Temperature, now).metadata
        /\ last' = Did("clear", IF last.op = "clear" THEN <<"again">> ELSE <<>>, TRUE,
                       <<>>, ZeroMetrics, "")
        /\ UNCHANGED <<settings, errors, max_history, session_id, files, now, pc, sent>>

\* /clear, /c (last.arg tells a /clear that follows a /clear from a first one)
CmdClear ==
    \E inp \in {CmdInput(c, <<>>) : c \in {"/clear", "/c", "/CLEAR"}} :
        /\ Command(inp, {"/clear", "/c"})
        /\ history' = ClearHistory(history)
        /\ current_conversation' = <<>>
        /\ last' = Did("clear", IF last.op = "clear" THEN <<"again">> ELSE <<>>, TRUE,
                       <<>>, ZeroMetrics, "")
        /\ UNCHANGED <<settings, errors, max_history, metadata, session_id, files, now, pc, sent>>

\* /help, /h, /history, /model, /m, /stats, /s, /list, /templates, /cls,
\* /clear-screen: they print and change nothing.
CmdShow ==
    \E inp \in {CmdInput(c, <<>>) : c \in {"/help", "/h", "/history", "/model", "/m", "/stats",
                                            "/s", "/list", "/templates", "/cls",
                                            "/clear-screen"}} :
        /\ Command(inp, {"/help", "/h", "/history", "/model", "/m", "/stats", "/s", "/list",
                         "/templates", "/cls", "/clear-screen"})
        /\ last' = DidCommand("show", inp, TRUE)
        /\ UNCHANGED <<settings, errors, max_history, history, current_conversation, metadata, session_id,
                       files, now, pc, sent>>

\* A /save that compares its argument as typed.
FormatTypeAsTyped(args) == IF args # <<>> THEN args ELSE <<"json">>

\* format_type = args.lower() if args else "json"
FormatType(args) == IF args # <<>> THEN Lower(args) ELSE <<"json">>

\* The formats /save knows.
SaveFormats == {<<"json">>, <<"md">>, <<"markdown">>, <<"txt">>, <<"text">>}

\* The save method /save calls for format_type: the path and content it writes.
SaveCall(format_type, cc, md, sid) ==
    IF format_type = <<"json">> THEN SaveJson(cc, md, sid)
    ELSE IF format_type \in {<<"md">>, <<"markdown">>} THEN SaveMarkdown(cc, md, sid)
    ELSE SaveText(cc, md, sid)

SaveInputs == {CmdInput("/save", a) : a \in SaveArgs}

\* /save [format]: the file is written.
CmdSave ==
    \E inp \in SaveInputs :
        /\ Command(inp, {"/save"})
        /\ FormatType(inp.args) \in SaveFormats
        /\ files' = WriteFile(files, SaveCall(FormatType(inp.args), current_conversation,
                                              metadata, session_id))
        /\ last' = DidCommand("save", inp, TRUE)
        /\ UNCHANGED <<settings, errors, max_history, history, current_conversation, metadata, session_id,
                       now, pc, sent>>

\* /save [format]: open(filepath, 'w') raises OSError. Neither handle_command nor
\* app() catches it (app() catches KeyboardInterrupt only), so it leaves app().
CmdSaveUnwritable ==
    \E inp \in SaveInputs :
        /\ Command(inp, {"/save"})
        /\ FormatType(inp.args) \in SaveFormats
        /\ pc' = "crashed"
        /\ last' = DidCommand("save", inp, FALSE)
        /\ UNCHANGED <<settings, errors, max_history, history, current_conversation, metadata, session_id,
                       files, now, sent>>

\* /save <anything else>: "Unknown format", return True.
CmdSaveUnknownFormat ==
    \E inp \in SaveInputs :
        /\ Command(inp, {"/save"})
        /\ FormatType(inp.args) \notin SaveFormats
        /\ last' = DidCommand("save_format", inp, FALSE)
        /\ UNCHANGED <<settings, errors, max_history, history, current_conversation, metadata, session_id,
                       files, now, pc, sent>>

\* /load <file>: load_conversation, and on success the engine history is extended
\* with the loaded user and assistant messages.
CmdLoad ==
    \E inp \in {CmdInput("/load", a) : a \in LoadArgs} :
        LET res == LoadConversation(files, LoadPath(inp.args), current_conversation, metadata)
        IN  /\ Command(inp, {"/load"})
            /\ inp.args # <<>>
            /\ current_conversation' = res.current_conversation
            /\ metadata' = res.metadata
            /\ history' = IF res.ok THEN Rehydrated(history, res.current_conversation)
                          ELSE history
            /\ last' = DidCommand("load", inp, res.ok)
            /\ UNCHANGED <<settings, errors, max_history, session_id, files, now, pc, sent>>

\* /load without a file: the saved conversations are listed.
CmdLoadList ==
    \E inp \in {CmdInput("/load", <<>>)} :
        /\ Command(inp, {"/load"})
        /\ inp.args = <<>>
        /\ last' = DidCommand("list", inp, TRUE)
        /\ UNCHANGED <<settings, errors, max_history, history, current_conversation, metadata, session_id,
                       files, now, pc, sent>>

\* A /template that puts the template's prompt into the history as a user message.
CmdTemplateAppending ==
    \E inp \in {CmdInput(c, a) : c \in {"/template", "/t"}, a \in TemplateArgs} :
        /\ Command(inp, {"/template", "/t"})
        /\ history' = IF inp.args # <<>> /\ GetTemplate(inp.args).found
                      THEN Append(history, Message("user", GetTemplate(inp.args).prompt))
                      ELSE history
        /\ last' = DidCommand("template", inp, inp.args # <<>> /\ GetTemplate(inp.args).found)
        /\ UNCHANGED <<settings, errors, max_history, current_conversation, metadata, session_id,
                       files, now, pc, sent>>

\* /template [name], /t [name]: prints the template list, "Using template" or
\* "Template not found", and returns True.
CmdTemplate ==
    \E inp \in {CmdInput(c, a) : c \in {"/template", "/t"}, a \in TemplateArgs} :
        /\ Command(inp, {"/template", "/t"})
        /\ last' = DidCommand("template", inp, inp.args # <<>> /\ GetTemplate(inp.args).found)
        /\ UNCHANGED <<settings, errors, max_history, history, current_conversation, metadata, session_id,
                       files, now, pc, sent>>

\* The first words handle_command has a branch for.
KnownCommands ==
    QUIT_COMMANDS \cup {"/help", "/h", "/clear", "/c", "/history", "/model", "/m", "/stats",
                        "/s", "/save", "/load", "/list", "/template", "/t", "/templates",
                        "/cls", "/clear-screen"}

\* A handle_command that returns False for a first word it does not know.
CmdUnknownQuits ==
    \E inp \in {CmdInput("/frobnicate", <<>>), CmdInput("/saves", <<"json">>)} :
        /\ GetInput
        /\ ~IsBlank(inp)
        /\ StartsWithSlash(inp)
        /\ LowerWord(inp.cmd) \notin KnownCommands
        /\ pc' = "cleanup"
        /\ last' = DidCommand("unknown", inp, FALSE)
        /\ UNCHANGED <<settings, errors, max_history, history, current_conversation, metadata, session_id,
                       files, now, sent>>

\* Any other first word: "Unknown command".
CmdUnknown ==
    \E inp \in {CmdInput("/frobnicate", <<>>), CmdInput("/saves", <<"json">>)} :
        /\ GetInput
        /\ ~IsBlank(inp)
        /\ StartsWithSlash(inp)
        /\ LowerWord(inp.cmd) \notin KnownCommands
        /\ last' = DidCommand("unknown", inp, FALSE)
        /\ UNCHANGED <<settings, errors, max_history, history, current_conversation, metadata, session_id,
                       files, now, pc, sent>>

\* After the loop: the summary, then auto_save of a non-empty conversation.
\* A failing write raises out of app().
Cleanup ==
    /\ pc = "cleanup"
    /\ \E written \in BOOLEAN :
         IF Len(current_conversation) > 0
         THEN IF written
              THEN /\ files' = WriteFile(files, SaveJson(current_conversation, metadata,
                                                         session_id))
                   /\ pc' = "returned"
                   /\ last' = DidCommand("cleanup", CmdInput("", <<>>), TRUE)
              ELSE /\ files' = files
                   /\ pc' = "crashed"
                   /\ last' = DidCommand("cleanup", CmdInput("", <<>>), FALSE)
         ELSE /\ files' = files
              /\ pc' = "returned"
              /\ last' = DidCommand("cleanup", CmdInput("", <<>>), TRUE)
    /\ UNCHANGED <<settings, errors, max_history, history, current_conversation, metadata, session_id,
                   now, inputs_left, sent>>

\* atexit: auto_save_on_exit, run once when the interpreter exits. An exception
\* in an atexit callback is printed and otherwise ignored.
AutoSaveOnExit ==
    /\ pc \in {"returned", "crashed"}
    /\ \E written \in BOOLEAN :
         /\ files' = IF Len(current_conversation) > 0 /\ written
                     THEN WriteFile(files, SaveJson(current_conversation, metadata,
                                                    session_id))
                     ELSE files
         /\ last' = DidCommand("atexit", CmdInput("", <<>>),
                               written \/ Len(current_conversation) = 0)
    /\ pc' = "terminated"
    /\ UNCHANGED <<settings, errors, max_history, history, current_conversation, metadata, session_id,
                   now, inputs_left, sent>>

Next ==
    \/ BlankLine
    \/ ChatTurnAnswered
    \/ ChatTurnFailed
    \/ ChatTurnInterrupted
    \/ CmdQuit
    \/ PromptInterrupted
    \/ CmdClear
    \/ CmdShow
    \/ CmdSave
    \/ CmdSaveUnwritable
    \/ CmdSaveUnknownFormat
    \/ CmdLoad
    \/ CmdLoadList
    \/ CmdTemplate
    \/ CmdUnknown
    \/ Cleanup
    \/ AutoSaveOnExit

Spec == Init /\ [][Next]_vars

-----------------------------------------------------------------------------
(* A ChatEngine used on its own, as tests/test_chat_engine.py uses it: only
   send_message and clear_history are called. *)

\* f"msg {i}"
Msg(i) == <<"msg ", ToString(i)>>

\* The remote call answers the message at position i with the text "msg i+1".
EngineResponses(i) == {Response(Msg(i + 1), u, 1) : u \in {Usage(2, 1), NoUsage}}

EngineInit ==
    /\ max_history \in 0..MaxWindow
    /\ settings = AppSettings(max_history)
    /\ errors = Validate(settings)
    /\ history = <<>>
    /\ current_conversation = <<>>
    /\ metadata = Session0.metadata
    /\ session_id = Session0.session_id
    /\ files = InitialFiles
    /\ now = 0
    /\ inputs_left = 0
    /\ pc = "engine"
    /\ sent = <<>>
    /\ last = Nothing

\* engine.send_message(f"msg {len(history)}"), the remote call answering r.
EngineSend(r) ==
    LET user_input == Msg(Len(history))
        res == SendMessage(history, max_history, user_input, r)
    IN  /\ pc = "engine"
        /\ history' = res.history
        /\ sent' = res.messages
        /\ last' = Did("send", user_input, r.raised = "", res.text, res.metrics, r.raised)
        /\ UNCHANGED <<settings, errors, max_history, current_conversation, metadata,
                       session_id, files, now, inputs_left, pc>>

EngineSendAnswered ==
    /\ Len(history) < 2 * MaxExchanges
    /\ \E r \in EngineResponses(Len(history)) : EngineSend(r)

EngineSendFailed == \E r \in Failures : EngineSend(r)

\* engine.clear_history()
EngineClear ==
    /\ pc = "engine"
    /\ history' = ClearHistory(history)
    /\ last' = Did("clear_history", <<>>, TRUE, <<>>, ZeroMetrics, "")
    /\ UNCHANGED <<settings, errors, max_history, current_conversation, metadata,
                   session_id, files, now, inputs_left, pc, sent>>

EngineNext ==
    \/ EngineSendAnswered
    \/ EngineSendFailed
    \/ EngineClear

EngineSpec == EngineInit /\ [][EngineNext]_vars

-----------------------------------------------------------------------------
(* The main loop, the user typing lines that end with a backslash as well. *)

\* A chat turn whose line ends with a backslash: input() returns the line as
\* typed and the loop sends it like any other.
ChatTurnContinued ==
    \E inp \in {TextInput(t) : t \in ContinuedTexts} : \E r \in Responses \cup Failures :
        ChatTurn(inp, <<>>, r)

InputNext ==
    \/ Next
    \/ ChatTurnContinued

InputSpec == Init /\ [][InputNext]_vars

-----------------------------------------------------------------------------
(* load_settings on its own: the environment gives the settings, validate
   decides whether the program goes on. *)

\* What GROQ_API_KEY, CHATBOT_TEMPERATURE (tenths) and CHATBOT_MAX_TOKENS can hold.
ApiKeys == { <<>>, <<"gsk_", "test_key_12345">>, <<"invalid_key_format">>,
             <<"GSK_", "upper">>, <<"sk-", "gsk_", "inside">> }
Temperatures == {-1, 0, 7, 20, 21, 50}
MaxTokens == {-1, 0, 1, 1024}

\* Settings.max_history when CHATBOT_MAX_HISTORY is not set.
DefaultMaxHistory == 20

SettingsInit ==
    /\ settings \in {Settings(key, GroqModel, "Atlas", DefaultMaxHistory, t, n) :
                        key \in ApiKeys, t \in Temperatures, n \in MaxTokens}
    /\ errors = <<>>
    /\ max_history = settings.max_history
    /\ history = <<>>
    /\ current_conversation = <<>>
    /\ metadata = Session0.metadata
    /\ session_id = Session0.session_id
    /\ files = InitialFiles
    /\ now = 0
    /\ inputs_left = 0
    /\ pc = "configure"
    /\ sent = <<>>
    /\ last = Nothing

\* load_settings: errors = settings.validate(); sys.exit(1) if there are any.
LoadSettings ==
    /\ pc = "configure"
    /\ errors' = Validate(settings)
    /\ pc' = IF errors' # <<>> THEN "exit" ELSE "configured"
    /\ last' = Did("validate", <<>>, errors' = <<>>, <<>>, ZeroMetrics, "")
    /\ UNCHANGED <<settings, max_history, history, current_conversation, metadata,
                   session_id, files, now, inputs_left, sent>>

SettingsNext == LoadSettings

SettingsSpec == SettingsInit /\ [][SettingsNext]_vars

-----------------------------------------------------------------------------
(* Properties *)

\* The steps of the main loop the properties are about.
FailedTurn == last'.op = "chat" /\ ChatTurnFailed
AnsweredTurn == last'.op = "chat" /\ ChatTurnAnswered
LoadSucceeded == last'.op = "load" /\ last'.ok /\ CmdLoad
LoadFailed == last'.op = "load" /\ ~last'.ok /\ CmdLoad
SaveFailed == last'.op = "save" /\ ~last'.ok /\ CmdSaveUnwritable

\* The dict _build_messages makes of a Message.
AsDict(m) == [role |-> m.role, content |-> m.content]

\* C1: for every max_history >= 0 and every history, _build_messages returns
\* 1 + min(len(history), max_history) entries: the system entry, then the last
\* min(len(history), max_history) messages of the history in their order.
C1_PayloadLength ==
    LET messages == BuildMessages(history, max_history)
        k == Min(Len(history), max_history)
    IN  /\ Len(messages) = 1 + k
        /\ messages[1] = AsDict(system_message)
        /\ \A i \in 1..k : messages[1 + i] = AsDict(history[Len(history) - k + i])

\* C2: when the remote call of send_message raises (any of the four kinds), the
\* history afterwards is the history before the call, nothing is raised to the
\* caller, and the metrics returned are all zero.
C2_FailedCallRollsBack ==
    [][FailedTurn =>
          /\ history' = history
          /\ pc' = "loop"
          /\ last'.metrics.prompt_tokens = 0
          /\ last'.metrics.completion_tokens = 0
          /\ last'.metrics.total_tokens = 0
          /\ last'.metrics.latency_seconds = 0]_vars

C2_Witness ==
    /\ last.op = "chat"
    /\ ~last.ok
    /\ last.raised = "RateLimitError"
    /\ Len(history) = 2
    /\ pc = "loop"

\* The messages current_conversation' holds beyond those of current_conversation.
NewMessages == SubSeq(current_conversation', Len(current_conversation) + 1,
                      Len(current_conversation'))

\* C3: a chat turn whose remote call fails adds no assistant message, neither to
\* the engine history nor to current_conversation, and total_messages is not
\* incremented for an assistant reply.
C3_NoAssistantEntryOnFailure ==
    [][FailedTurn =>
          /\ history' = history
          /\ \A i \in 1..Len(NewMessages) : NewMessages[i].role # "assistant"
          /\ metadata'.total_messages <= metadata.total_messages + 1]_vars

\* What load_conversation makes of the same file in a session that has just
\* started: nothing of a session in progress can be in it.
LoadedAfresh(args) ==
    LoadConversation(files, LoadPath(args), Session0.current_conversation, Session0.metadata)

\* C4: a successful load_conversation replaces current_conversation and metadata
\* wholesale by the document's contents, whatever the state before and whatever
\* document with a messages key is loaded: the outcome is that of loading the
\* document into a fresh session.
C4_LoadReplacesWholesale ==
    [][LoadSucceeded =>
          /\ current_conversation' = LoadedAfresh(last'.arg).current_conversation
          /\ metadata' = LoadedAfresh(last'.arg).metadata]_vars

\* C5: after a successful /load the engine history is exactly the loaded user and
\* assistant messages in file order, with nothing of the history before it.
C5_LoadRehydratesHistory ==
    [][LoadSucceeded => history' = Rehydrated(<<>>, current_conversation')]_vars

\* C6: a load_conversation that fails leaves current_conversation, metadata and
\* the engine history exactly as they were.
C6_FailedLoadChangesNothing ==
    [][LoadFailed =>
          UNCHANGED <<current_conversation, metadata, history>>]_vars

\* The session a later run of the program starts, before it loads anything.
LaterSession == StartSession(GroqModel, Temperature, now + 1)

\* save_json of the current conversation, then load_conversation of the file it
\* wrote, in a session that holds none of it.
SavedThenLoaded ==
    LET w == SaveJson(current_conversation, metadata, session_id)
    IN  LoadConversation(WriteFile(files, w), w.path,
                         LaterSession.current_conversation, LaterSession.metadata)

\* C7: save_json followed by load_conversation of the written file reproduces the
\* same messages (role, content, timestamp, tokens, latency) in the same order
\* and the same metadata fields.
C7_RoundTrip ==
    /\ SavedThenLoaded.ok
    /\ SavedThenLoaded.current_conversation = current_conversation
    /\ SavedThenLoaded.metadata = metadata

\* A /save and then a /load of the file it wrote have run, on a conversation of a
\* completed turn.
C7_Witness ==
    /\ last.op = "load"
    /\ last.ok
    /\ last.arg = DefaultName(session_id, "json")
    /\ Len(current_conversation) = 2
    /\ current_conversation[2].latency > 0
    /\ metadata.total_tokens > 0
    /\ metadata.session_id = session_id

\* C8: /template <name> (or /t <name>) and then raw text as the next input give
\* one user message, the template's prompt, two newlines and the raw text; it is
\* what is sent to the model and it is appended to the conversation once.
C8_TemplateComposesNextTurn ==
    [][(last.op = "template" /\ last.ok /\ (AnsweredTurn \/ FailedTurn)) =>
          \E raw \in Texts :
              LET composed == GetTemplate(last.arg).prompt \o <<"\n\n">> \o raw
              IN  /\ sent'[Len(sent')] = [role |-> "user", content |-> composed]
                  /\ NewMessages[1].role = "user"
                  /\ NewMessages[1].content = composed
                  /\ \A i \in 2..Len(NewMessages) : NewMessages[i].role # "user"]_vars

\* C9: a failed write in /save does not end the interactive loop, and leaves the
\* conversation, the metadata and the engine history unchanged.
C9_FailedSaveKeepsLoop ==
    [][SaveFailed =>
          /\ pc' = "loop"
          /\ UNCHANGED <<current_conversation, metadata, history>>]_vars

\* C10: windowing is read-only and the history unbounded: a successful turn
\* leaves every earlier message in the history and adds the turn's two, whatever
\* max_history; a failed one leaves the history as it was.
C10_WindowingReadOnly ==
    [][/\ AnsweredTurn =>
            /\ Len(history') = Len(history) + 2
            /\ SubSeq(history', 1, Len(history)) = history
       /\ FailedTurn => history' = history]_vars

\* Two successful turns with max_history = 1: the payload of the second was cut
\* to the system entry and one message, the history holds all four.
C10_Witness ==
    /\ last.op = "chat"
    /\ last.ok
    /\ max_history = 1
    /\ Len(history) = 4
    /\ Len(sent) = 2
    /\ metadata.total_messages = 4

\* The entries of a payload that have the role system.
SystemEntries(messages) == {i \in 1..Len(messages) : messages[i].role = "system"}

\* C11: after any sequence of chat turns, /clear and /load the engine history
\* holds no message with the role system, and every payload _build_messages
\* builds (the one it would build now, and the one last sent) has exactly one
\* system entry, at index 0, with the system prompt of the engine's construction.
C11_OneSystemEntry ==
    /\ \A i \in 1..Len(history) : history[i].role # "system"
    /\ \A messages \in {BuildMessages(history, max_history)} \cup ({sent} \ {<<>>}) :
          /\ SystemEntries(messages) = {1}
          /\ messages[1].content = SystemPrompt

\* A document with a system message was loaded after a turn: the conversation
\* manager holds the system message, the engine history does not.
C11_Witness ==
    /\ last.op = "load"
    /\ last.ok
    /\ \E i \in 1..Len(current_conversation) : current_conversation[i].role = "system"
    /\ Len(history) = 3
    /\ Len(sent) > 1

\* C12: a successful send_message extends the history by exactly two entries, the
\* user message with the given input and then the assistant message with the
\* returned text, returns that text, and returns metrics whose token counts are
\* those of the response's usage, zero when the response has no usage.
C12_SuccessfulSend ==
    [][AnsweredTurn =>
          \E r \in Responses :
              /\ history' = history \o <<Message("user", last'.arg),
                                         Message("assistant", r.content)>>
              /\ last'.text = r.content
              /\ last'.metrics.prompt_tokens =
                     (IF r.usage.present THEN r.usage.prompt_tokens ELSE 0)
              /\ last'.metrics.completion_tokens =
                     (IF r.usage.present THEN r.usage.completion_tokens ELSE 0)
              /\ last'.metrics.total_tokens =
                     (IF r.usage.present THEN r.usage.total_tokens ELSE 0)]_vars

\* A second answered turn, its response carrying usage.
C12_Witness ==
    /\ last.op = "chat"
    /\ last.ok
    /\ last.metrics.prompt_tokens = 2
    /\ last.metrics.completion_tokens = 1
    /\ last.metrics.total_tokens = 3
    /\ Len(history) = 4
    /\ history[3] = Message("user", last.arg)
    /\ history[4] = Message("assistant", last.text)

\* The steps that record messages, and those of /stats (with the other commands
\* that only print) and of a /save that wrote its file.
RecordingTurn == last'.op = "chat" /\ (ChatTurnAnswered \/ ChatTurnFailed)
StatsStep == last'.op = "show" /\ CmdShow
SaveStep == last'.op = "save" /\ last'.ok /\ CmdSave

\* C13: message recording is strictly additive. start_session leaves both
\* counters at zero; every add_message adds one to total_messages and its token
\* count to total_tokens, so a turn's two calls add 2 and the sum of their
\* tokens; /stats and /save, wherever they come between, add nothing.
C13_RecordingAdditive ==
    /\ metadata.total_messages = 0
    /\ metadata.total_tokens = 0
    /\ [][/\ RecordingTurn =>
               /\ Len(NewMessages) = 2
               /\ metadata'.total_messages = metadata.total_messages + Len(NewMessages)
               /\ metadata'.total_tokens = metadata.total_tokens + SumTokens(NewMessages)
          /\ (StatsStep \/ SaveStep) => metadata' = metadata]_vars

\* Four add_message calls with a /save between the second and the third: the
\* file holds the counters of two, the session those of all four.
C13_Witness ==
    LET saved == files[InSaveDir(DefaultName(session_id, "json"))]
    IN  /\ last.op = "chat"
        /\ saved.exists
        /\ saved.data.metadata.total_messages = [number |-> 2]
        /\ saved.data.metadata.total_tokens = [number |-> 3]
        /\ Len(current_conversation) = 4
        /\ metadata.total_messages = 4
        /\ metadata.total_tokens = 6
        /\ SumTokens(current_conversation) = 6

\* C14: once the session has started, total_messages and total_tokens never
\* decrease, whatever chat turns and /clear, /save, /stats and /load directives
\* the running process executes.
C14_CountersMonotone ==
    [][/\ metadata'.total_messages >= metadata.total_messages
       /\ metadata'.total_tokens >= metadata.total_tokens]_vars

ClearStep == last'.op = "clear" /\ CmdClear

\* C15: /clear empties the engine history and current_conversation and leaves
\* the session metadata untouched: total_messages, total_tokens, session_id,
\* model, temperature and start_time are after it what they were before.
C15_ClearKeepsMetadata ==
    [][ClearStep =>
          /\ history' = <<>>
          /\ current_conversation' = <<>>
          /\ metadata'.total_messages = metadata.total_messages
          /\ metadata'.total_tokens = metadata.total_tokens
          /\ metadata'.session_id = metadata.session_id
          /\ metadata'.model = metadata.model
          /\ metadata'.temperature = metadata.temperature
          /\ metadata'.start_time = metadata.start_time
          /\ session_id' = session_id]_vars

\* A /clear after an answered turn: nothing is left of the messages, the
\* counters still count them.
C15_Witness ==
    /\ last.op = "clear"
    /\ history = <<>>
    /\ current_conversation = <<>>
    /\ metadata.total_messages = 2
    /\ metadata.total_tokens = 3
    /\ metadata.start_time = Session0.metadata.start_time

\* C16: clearing is idempotent. From any state clear_history leaves the history
\* empty and applied again leaves it empty again; every /clear leaves history
\* and current_conversation empty and the loop running (nothing is raised), and
\* a /clear right after a /clear changes nothing.
C16_ClearIdempotent ==
    /\ [](/\ ClearHistory(history) = <<>>
          /\ ClearHistory(ClearHistory(history)) = ClearHistory(history))
    /\ [][ClearStep =>
             /\ history' = <<>>
             /\ current_conversation' = <<>>
             /\ pc' = "loop"
             /\ (last.op = "clear" =>
                    UNCHANGED <<history, current_conversation, metadata, files>>)]_vars

\* An answered turn, /clear and /clear again.
C16_Witness ==
    /\ last.op = "clear"
    /\ last.arg = <<"again">>
    /\ history = <<>>
    /\ current_conversation = <<>>
    /\ metadata.total_messages = 2
    /\ metadata.session_id = session_id
    /\ inputs_left = MaxInputs - 3
    /\ pc = "loop"

UnknownStep == last'.op = "unknown" /\ CmdUnknown
TemplateStep == last'.op = "template" /\ CmdTemplate

\* C17: a directive outside the known set is reported as an error and is
\* otherwise a no-op: engine history, current_conversation, metadata and files
\* are unchanged, and handle_command returns True, so the loop goes on.
C17_UnknownDirectiveNoOp ==
    [][UnknownStep =>
          /\ ~last'.ok
          /\ UNCHANGED <<history, current_conversation, metadata, files>>
          /\ pc' = "loop"]_vars

\* An unknown directive after an answered turn.
C17_Witness ==
    /\ last.op = "unknown"
    /\ ~last.ok
    /\ Len(history) = 2
    /\ Len(current_conversation) = 2
    /\ metadata.total_messages = 2
    /\ pc = "loop"

\* C18: /template and /t, with a known name, an unknown name or no name, never
\* change the engine history, current_conversation or the metadata counters.
C18_TemplateChangesNothing ==
    [][TemplateStep =>
          /\ UNCHANGED <<history, current_conversation>>
          /\ metadata'.total_messages = metadata.total_messages
          /\ metadata'.total_tokens = metadata.total_tokens]_vars

\* /template with a known name after an answered turn.
C18_Witness ==
    /\ last.op = "template"
    /\ last.ok
    /\ last.arg = <<"code">>
    /\ Len(history) = 2
    /\ Len(current_conversation) = 2
    /\ metadata.total_messages = 2

\* A /load of a path at which there is no file.
MissingLoad == last'.op = "load" /\ ~files[LoadPath(last'.arg)].exists /\ CmdLoad

\* C19: loading a path that does not exist reports failure (load_conversation
\* returns False) and leaves a conversation of k messages at exactly k messages,
\* in the conversation manager and in the engine history alike.
C19_MissingFileKeepsConversation ==
    [][MissingLoad =>
          /\ ~last'.ok
          /\ Len(current_conversation') = Len(current_conversation)
          /\ Len(history') = Len(history)
          /\ UNCHANGED <<current_conversation, history>>]_vars

\* /load nonexistent.json after two answered turns.
C19_Witness ==
    /\ last.op = "load"
    /\ last.arg = MissingName
    /\ ~last.ok
    /\ ~files[LoadPath(last.arg)].exists
    /\ Len(current_conversation) = 4
    /\ Len(history) = 4

CleanupStep == last'.op = "cleanup" /\ Cleanup
ExitStep == last'.op = "atexit" /\ AutoSaveOnExit

\* The step logged as l ran auto_save on a conversation cc and wrote the file.
AutoSaved(l, cc) == l.op \in {"cleanup", "atexit"} /\ l.ok /\ Len(cc) > 0

\* C20: auto-save on exit is one-shot and safe on empty: on a process exit the
\* conversation is auto-saved at most once (the exit hook does not save what the
\* end of app() has just saved), and with an empty conversation the auto-save
\* writes nothing and does not raise.
C20_AutoSaveOneShot ==
    [][/\ (ExitStep /\ AutoSaved(last', current_conversation')) =>
              ~AutoSaved(last, current_conversation)
       /\ ((CleanupStep \/ ExitStep) /\ Len(current_conversation) = 0) =>
              /\ files' = files
              /\ last'.ok
              /\ pc' # "crashed"]_vars

\* The extension of the file /save writes for the format logged in last.arg.
Extension(arg) ==
    IF arg \in {<<>>, <<"json">>} THEN "json"
    ELSE IF arg \in {<<"md">>, <<"markdown">>} THEN "md"
    ELSE "txt"

\* The default path of an encoding in the session start_session began.
SessionPath(ext) == InSaveDir(DefaultName(Session0.session_id, ext))

\* C21: within one session every save of an encoding without an explicit
\* filename targets the one path made of the session id and the encoding's
\* extension, so it replaces what an earlier default save left there and touches
\* no other file, also after chat turns, /clear and /load.
C21_DefaultSaveSamePath ==
    [][SaveStep =>
          LET p == SessionPath(Extension(last'.arg))
          IN  /\ DOMAIN files' = DOMAIN files
              /\ files'[p].exists
              /\ files'[p].format = Extension(last'.arg)
              /\ \A q \in DOMAIN files \ {p} : files'[q] = files[q]]_vars

\* A default save, then a /load of another session's file, then a default save
\* again: the session's own file now holds the loaded conversation.
C21_Witness ==
    /\ last.op = "save"
    /\ last.ok
    /\ last.arg = <<>>
    /\ metadata.session_id # session_id
    /\ files[SessionPath("json")].exists
    /\ files[SessionPath("json")].data.metadata.session_id = [string |-> metadata.session_id]
    /\ Len(files[SessionPath("json")].data.messages) = 2

SaveFormatStep == last'.op = "save_format" /\ CmdSaveUnknownFormat

\* What /save writes for the (lower-cased) argument arg in the current state.
EncodingFor(arg) ==
    IF arg \in {<<>>, <<"json">>}
    THEN SaveJson(current_conversation, metadata, session_id)
    ELSE IF arg \in {<<"md">>, <<"markdown">>}
    THEN SaveMarkdown(current_conversation, metadata, session_id)
    ELSE SaveText(current_conversation, metadata, session_id)

\* C22: /save selects the encoding from its argument, compared without regard
\* to case: none or json writes the JSON document, md or markdown the Markdown
\* export, txt or text the plain text export; any other argument is reported as
\* an error, writes no file, changes no state and leaves the loop running.
C22_SaveSelectsEncoding ==
    [][/\ SaveStep =>
            /\ last'.arg \in SaveFormats \cup {<<>>}
            /\ files' = WriteFile(files, EncodingFor(last'.arg))
       /\ SaveFormatStep =>
            /\ last'.arg \notin SaveFormats \cup {<<>>}
            /\ ~last'.ok
            /\ pc' = "loop"
            /\ UNCHANGED <<history, current_conversation, metadata, session_id, files>>]_vars

\* /save markdown after an answered turn: the Markdown export of both messages.
C22_Witness ==
    /\ last.op = "save"
    /\ last.ok
    /\ last.arg = <<"markdown">>
    /\ files[SessionPath("md")].exists
    /\ files[SessionPath("md")].format = "md"
    /\ Len(files[SessionPath("md")].body.blocks) = 2
    /\ ~files[SessionPath("json")].exists

\* The tokens of the first n messages of cc.
RECURSIVE TokensOfFirst(_, _)
TokensOfFirst(cc, n) == IF n = 0 THEN 0 ELSE TokensOfFirst(cc, n - 1) + cc[n].tokens

\* C23: get_conversation_summary can be computed in every reachable state and
\* changes nothing: it gives the empty indicator exactly when
\* current_conversation is empty, and otherwise the number of messages held,
\* those of the user, those of the assistant, and the sum of their tokens.
C23_SummaryAnyTime ==
    /\ [](LET cc == current_conversation
              summary == GetConversationSummary(cc)
          IN  /\ summary.empty <=> Len(cc) = 0
              /\ ~summary.empty =>
                    /\ summary.messages = Len(cc)
                    /\ summary.you = Cardinality({i \in DOMAIN cc : cc[i].role = "user"})
                    /\ summary.assistant =
                           Cardinality({i \in DOMAIN cc : cc[i].role = "assistant"})
                    /\ summary.tokens = TokensOfFirst(cc, Len(cc)))
    /\ [][StatsStep =>
             UNCHANGED <<history, current_conversation, metadata, session_id, files, pc>>]_vars

\* /stats on a loaded system and user message and the two of an answered turn.
C23_Witness ==
    /\ last.op = "show"
    /\ GetConversationSummary(current_conversation) =
           [empty |-> FALSE, messages |-> 4, you |-> 2, assistant |-> 1, tokens |-> 3]
    /\ metadata.total_messages = 2

\* C24: for every max_history >= 1 the entries after the system entry of the
\* payload are exactly the last min(len(history), max_history) messages of the
\* history, in the order of the history; all of them when the history has fewer
\* than max_history. With max_history = 4 and msg 0 .. msg 5 the payload is the
\* system entry, msg 2, msg 3, msg 4, msg 5.
C24_PayloadIsLatestWindow ==
    max_history >= 1 =>
        LET messages == BuildMessages(history, max_history)
            k == Min(Len(history), max_history)
        IN  /\ Len(messages) = 1 + k
            /\ messages[1] = AsDict(system_message)
            /\ \A i \in 1..k : messages[1 + i] = AsDict(history[Len(history) - k + i])
            /\ Len(history) < max_history => Len(messages) = 1 + Len(history)
            /\ (max_history = 4 /\ Len(history) = 6) =>
                  [i \in 1..5 |-> messages[i].content] =
                      <<SystemPrompt, Msg(2), Msg(3), Msg(4), Msg(5)>>

\* max_history = 4 and three answered exchanges, msg 0 .. msg 5.
C24_Witness ==
    /\ max_history = 4
    /\ [i \in 1..Len(history) |-> history[i].content] =
           <<Msg(0), Msg(1), Msg(2), Msg(3), Msg(4), Msg(5)>>
    /\ Len(BuildMessages(history, max_history)) = 5
    /\ BuildMessages(history, max_history)[2] = [role |-> "user", content |-> Msg(2)]
    /\ BuildMessages(history, max_history)[5] = [role |-> "assistant", content |-> Msg(5)]

\* C30: starting from an empty history, after any sequence of send_message calls
\* (answered, or failed with an exception of the remote call) and clear_history
\* calls the history has even length and alternates user, assistant, user first.
C30_HistoryAlternates ==
    /\ Len(history) % 2 = 0
    /\ \A i \in 1..Len(history) :
          history[i].role = IF i % 2 = 1 THEN "user" ELSE "assistant"

\* A failed call after two answered ones.
C30_Witness ==
    /\ pc = "engine"
    /\ last.op = "send"
    /\ ~last.ok
    /\ last.raised = "APIError"
    /\ Len(history) = 4
    /\ Len(sent) > 1

\* The errors of a list, as a set.
Among(list) == {list[i] : i \in 1..Len(list)}

\* C25: validate returns an empty list exactly when the key is non-empty and
\* starts with gsk_, the temperature lies in 0..2 and max_tokens is at least 1.
\* An empty key gives the required-key error first and no prefix error, a
\* non-empty key without the prefix gives the prefix error, and each violated
\* temperature or max_tokens rule adds its own error.
C25_ValidateRules ==
    pc \in {"configured", "exit"} =>
        LET key == settings.groq_api_key
            t == settings.temperature
            n == settings.max_tokens
        IN  /\ errors = <<>> <=>
                  (key # <<>> /\ key[1] = "gsk_" /\ t >= 0 /\ t <= 20 /\ n >= 1)
            /\ key = <<>> =>
                  (errors[1] = KeyRequiredError /\ KeyPrefixError \notin Among(errors))
            /\ (key # <<>> /\ key[1] # "gsk_") =>
                  (KeyPrefixError \in Among(errors)
                   /\ KeyRequiredError \notin Among(errors))
            /\ (t < 0 \/ t > 20) <=> TemperatureError(t) \in Among(errors)
            /\ n < 1 <=> MaxTokensError(n) \in Among(errors)
            /\ Len(errors) = Cardinality(Among(errors))

\* No key, temperature 5.0 and max_tokens -1: three errors, the key's first.
C25_Witness ==
    /\ pc = "exit"
    /\ settings.groq_api_key = <<>>
    /\ settings.temperature = 50
    /\ settings.max_tokens = -1
    /\ errors = <<KeyRequiredError, TemperatureError(50), MaxTokensError(-1)>>

\* C26: a line that ends with a backslash is not submitted: the application
\* reads on until a line without a trailing backslash, and then submits one
\* message, the lines joined with newlines, the trailing backslashes removed.
\* So no message sent to the model or recorded ends with a backslash.
C26_ContinuationLines ==
    [][(last'.op = "chat" /\ (ChatTurnAnswered \/ ChatTurnFailed \/ ChatTurnContinued)) =>
          /\ ~EndsWithBackslash(sent'[Len(sent')].content)
          /\ \A i \in 1..Len(NewMessages) :
                NewMessages[i].role = "user" => ~EndsWithBackslash(NewMessages[i].content)]_vars

\* What last.op logs for the directives other than the quit commands.
OtherDirectives == {"clear", "show", "save", "save_format", "load", "list", "template",
                    "unknown"}

\* C27: the loop ends exactly on a quit request. /quit, /exit, /q in any letter
\* case and Ctrl+C or end-of-input at the prompt stop the loop and the cleanup
\* runs next; every other directive returns True and the loop reads on.
C27_LoopEndsOnQuitOnly ==
    [][/\ (last'.op = "quit" /\ (CmdQuit \/ PromptInterrupted)) => pc' = "cleanup"
       /\ (pc = "cleanup" /\ pc' # pc) => (last'.op = "cleanup" /\ Cleanup)
       /\ (pc = "loop" /\ last'.op \in OtherDirectives) => pc' = "loop"]_vars

\* The (role, content) pairs of a list of messages.
Pairs(msgs) == [i \in 1..Len(msgs) |-> [role |-> msgs[i].role, content |-> msgs[i].content]]

\* C28: the two message stores stay in step: after any sequence of answered and
\* failed chat turns, /clear and /load the engine history and
\* current_conversation hold the same sequence of (role, content) pairs.
C28_StoresInStep ==
    pc = "loop" => Pairs(history) = Pairs(current_conversation)

\* C29: metadata.session_id is the session_id the default export filenames are
\* made of, after start_session, chat turns, /clear, /save and a successful
\* /load of a file another session wrote.
C29_MetadataSessionId ==
    metadata.session_id = session_id

====
